---------------------------- MODULE Spec2Model ----------------------------
(***************************************************************************)
(* A model of the plookup repository's MultiSet (src/src/multiset.rs) and  *)
(* of its LookUp driver (src/src/lookup.rs).                               *)
(*                                                                         *)
(* Fr, the scalar field of BLS12-381, is scaled down to the integers       *)
(* modulo FrModulus; an element is its canonical representative, which is  *)
(* also what the derived Ord of Fr (used by Vec::sort) compares.  usize is *)
(* scaled down to UsizeBits bits.  The code only adds, multiplies and      *)
(* compares field elements, so nothing below needs FrModulus to be prime.  *)
(***************************************************************************)
EXTENDS Integers, Sequences, FiniteSets

VARIABLES
    table,          \* LookUp.table
    left_wires,     \* LookUp.left_wires
    right_wires,    \* LookUp.right_wires
    output_wires,   \* LookUp.output_wires
    call,           \* the last LookUp call: its arguments, the wires before it, its outcome
    set_a,          \* a MultiSet (self of the MultiSet operations)
    set_b,          \* a second MultiSet (the argument of the MultiSet operations)
    ms_call         \* the last MultiSet call and what it returned

vars == <<table, left_wires, right_wires, output_wires, call, set_a, set_b, ms_call>>
lookup_vars == <<table, left_wires, right_wires, output_wires, call>>
multiset_vars == <<set_a, set_b, ms_call>>

(***************************************************************************)
(* Bounds of the model.                                                    *)
(***************************************************************************)
FrModulus == 3
UsizeBits == 16
MaxWires == 4
MaxLenA == 3
MaxLenB == 2

\* size_of::<Fr>(): four 64-bit limbs
FrBytes == 32

(***************************************************************************)
(* Fr and usize.                                                           *)
(***************************************************************************)
Fr == 0 .. (FrModulus - 1)
FrZero == 0
FrOne == 1 % FrModulus
FrAdd(x, y) == (x + y) % FrModulus
FrMul(x, y) == (x * y) % FrModulus

UsizeModulus == 2 ^ UsizeBits
IsizeMax == 2 ^ (UsizeBits - 1) - 1

Range(s) == {s[i] : i \in 1 .. Len(s)}

SeqsUpTo(S, k) == UNION {[1 .. m -> S] : m \in 0 .. k}

(***************************************************************************)
(* MultiSet (src/src/multiset.rs).                                         *)
(***************************************************************************)
new == <<>>

push(self, value) == Append(self, value)

\* vec![value; n] panics ("capacity overflow") when n elements need more
\* than isize::MAX bytes.
extend_panics(n) == n > IsizeMax \div FrBytes

extend(self, n, value) == self \o [i \in 1 .. n |-> value]

last_panics(self) == self = <<>>

last(self) == self[Len(self)]

len(self) == Len(self)

RECURSIVE insert_sorted(_, _)
insert_sorted(sorted, x) ==
    IF sorted = <<>> THEN <<x>>
    ELSE IF x <= Head(sorted) THEN <<x>> \o sorted
    ELSE <<Head(sorted)>> \o insert_sorted(Tail(sorted), x)

RECURSIVE sort_from(_, _, _)
sort_from(self, k, acc) ==
    IF k > Len(self) THEN acc
    ELSE sort_from(self, k + 1, insert_sorted(acc, self[k]))

sort_unsorted(self) == self

sort(self) == sort_from(self, 1, <<>>)

concatenate(self, other) == self \o other

\* the inner while loop of sorted_by: i is the code's 0-based index into t
RECURSIVE sorted_by_advance(_, _, _)
sorted_by_advance(t, i, element) ==
    IF i < Len(t) /\ t[i + 1] # element
    THEN sorted_by_advance(t, i + 1, element)
    ELSE i

\* the for loop of sorted_by: j is the (1-based) position of element in self
RECURSIVE sorted_by_loop(_, _, _, _)
sorted_by_loop(self, t, j, i) ==
    IF j > Len(self) THEN TRUE
    ELSE LET i2 == sorted_by_advance(t, i, self[j])
         IN  IF i2 = Len(t) THEN FALSE
             ELSE sorted_by_loop(self, t, j + 1, i2)

\* the mutant: i moves past an element of t once it is matched
RECURSIVE sorted_by_consuming_loop(_, _, _, _)
sorted_by_consuming_loop(self, t, j, i) ==
    IF j > Len(self) THEN TRUE
    ELSE LET i2 == sorted_by_advance(t, i, self[j])
         IN  IF i2 = Len(t) THEN FALSE
             ELSE sorted_by_consuming_loop(self, t, j + 1, i2 + 1)

sorted_by_consuming(self, t) == sorted_by_consuming_loop(self, t, 1, 0)

sorted_by(self, t) == sorted_by_loop(self, t, 1, 0)

contains(self, element) == element \in Range(self)

is_subset_of_panics(self, other) == ~(len(other) >= len(self))

is_subset_of(self, other) == \A k \in 1 .. Len(self) : contains(other, self[k])

\* &self.0[0..=length / 2] is out of range for the empty multiset
halve_panics(self) == Len(self) = 0

halve_disjoint(self) ==
    LET length == Len(self)
    IN  <<SubSeq(self, 1, length \div 2 + 1), SubSeq(self, length \div 2 + 2, length)>>

halve(self) ==
    LET length == Len(self)
    IN  <<SubSeq(self, 1, length \div 2 + 1), SubSeq(self, length \div 2 + 1, length)>>

\* impl Add for MultiSet: zip stops at the shorter operand
Add(self, other) ==
    LET m == IF Len(self) <= Len(other) THEN Len(self) ELSE Len(other)
    IN  [k \in 1 .. m |-> FrAdd(self[k], other[k])]

\* impl Mul<Fr> for MultiSet and for &MultiSet
Mul(self, other) == [k \in 1 .. Len(self) |-> FrMul(self[k], other)]

RECURSIVE aggregate_max(_, _, _)
aggregate_max(sets, k, max) ==
    IF k > Len(sets) THEN max
    ELSE aggregate_max(sets, k + 1, IF len(sets[k]) > max THEN len(sets[k]) ELSE max)

RECURSIVE aggregate_loop(_, _, _, _, _)
aggregate_loop(sets, k, result, powers, challenge) ==
    IF k > Len(sets) THEN result
    ELSE aggregate_loop(sets, k + 1, Add(result, Mul(sets[k], powers)),
                        FrMul(powers, challenge), challenge)

aggregate(sets, challenge) ==
    LET max == aggregate_max(sets, 1, 0)
    IN  aggregate_loop(sets, 1, [k \in 1 .. max |-> FrZero], FrOne, challenge)

(***************************************************************************)
(* The MultiSet operations as steps on two multisets drawn by MSInit.      *)
(***************************************************************************)
NoMsCall == [op |-> "none", sets |-> <<>>, alpha |-> 0, panic |-> FALSE, val |-> <<>>]

MSInit ==
    /\ set_a \in SeqsUpTo(Fr, MaxLenA)
    /\ set_b \in SeqsUpTo(Fr, MaxLenB)
    /\ ms_call = NoMsCall

SortedBy ==
    /\ ms_call' = [NoMsCall EXCEPT !.op = "sorted_by", !.val = <<sorted_by(set_a, set_b)>>]
    /\ UNCHANGED <<set_a, set_b, lookup_vars>>

ConcatSort ==
    /\ LET s == sort(concatenate(set_a, set_b))
       IN  ms_call' = [NoMsCall EXCEPT !.op = "concat_sort",
                                       !.val = <<s, sorted_by(s, set_b)>>]
    /\ UNCHANGED <<set_a, set_b, lookup_vars>>

Halve ==
    /\ ms_call' = IF halve_panics(set_a)
                  THEN [NoMsCall EXCEPT !.op = "halve", !.panic = TRUE]
                  ELSE [NoMsCall EXCEPT !.op = "halve", !.val = halve(set_a)]
    /\ UNCHANGED <<set_a, set_b, lookup_vars>>

Aggregate ==
    /\ \E challenge \in Fr :
         \E sets \in {<<set_a>>, <<set_a, set_b>>, <<set_a, set_b, set_b>>} :
            ms_call' = [NoMsCall EXCEPT !.op = "aggregate", !.sets = sets,
                                        !.alpha = challenge,
                                        !.val = aggregate(sets, challenge)]
    /\ UNCHANGED <<set_a, set_b, lookup_vars>>

(***************************************************************************)
(* The lookup tables.  A table is its list of rows <<left, right, output>>;*)
(* the LookUpTable and PreProcessedTable code is not part of src/, so      *)
(* read and preprocess follow the specification: read is a pure function   *)
(* from a key to an optional value, and the preprocessed columns t_1, t_2, *)
(* t_3 enumerate the rows, n being their number.                           *)
(***************************************************************************)
Bit == {0, 1}

\* (a, b, a XOR b), the one-bit analogue of the repository's XOR4BitTable
XORTable == << <<0, 0, 0>>, <<0, 1, 1>>, <<1, 0, 1>>, <<1, 1, 0>> >>

\* (a, b, a + b)
ADDTable == << <<0, 0, 0>>, <<0, 1, 1>>, <<1, 0, 1>>, <<1, 1, 2 % FrModulus>> >>

\* (a, b, NOT (a AND b)): a table without the all-zero row
NANDTable == << <<1, 1, 0>>, <<1, 0, 1>>, <<0, 1, 1>>, <<0, 0, 1>> >>

Tables == {XORTable, ADDTable, NANDTable}

None == <<>>
Some(v) == <<v>>

table_read(T, key) ==
    IF \E r \in 1 .. Len(T) : T[r][1] = key[1] /\ T[r][2] = key[2]
    THEN Some(T[CHOOSE r \in 1 .. Len(T) : T[r][1] = key[1] /\ T[r][2] = key[2]][3])
    ELSE None

preprocess(T) ==
    [t_1 |-> [r \in 1 .. Len(T) |-> T[r][1]],
     t_2 |-> [r \in 1 .. Len(T) |-> T[r][2]],
     t_3 |-> [r \in 1 .. Len(T) |-> T[r][3]],
     n   |-> Len(T)]

(***************************************************************************)
(* LookUp (src/src/lookup.rs).                                             *)
(***************************************************************************)
Wires == <<left_wires, right_wires, output_wires>>

NoCall == [op |-> "new", key |-> <<0, 0>>, alpha |-> 0, overflow_checks |-> FALSE,
           pre |-> <<new, new, new>>, ret |-> FALSE, panic |-> FALSE,
           f |-> <<>>, t |-> <<>>]

\* LookUp::new, for each of the tables
Init ==
    /\ table \in Tables
    /\ left_wires = new
    /\ right_wires = new
    /\ output_wires = new
    /\ call = NoCall
    /\ set_a = new
    /\ set_b = new
    /\ ms_call = NoMsCall

\* the mutant: a missing key is recorded with a zero output
read_result_push_missing(T, wires, key) ==
    LET option_output == table_read(T, key)
        output == IF option_output = None THEN FrZero ELSE option_output[1]
    IN  [ret |-> option_output # None,
         wires |-> <<push(wires[1], key[1]), push(wires[2], key[2]), push(wires[3], output)>>]

\* the mutant: key.0 is pushed onto output_wires in place of the output
read_result_key_as_output(T, wires, key) ==
    LET option_output == table_read(T, key)
    IN  IF option_output = None
        THEN [ret |-> FALSE, wires |-> wires]
        ELSE [ret |-> TRUE,
              wires |-> <<push(wires[1], key[1]), push(wires[2], key[2]),
                          push(wires[3], key[1])>>]

\* what read returns and what it leaves in the wires
read_result(T, wires, key) ==
    LET option_output == table_read(T, key)
    IN  IF option_output = None
        THEN [ret |-> FALSE, wires |-> wires]
        ELSE [ret |-> TRUE,
              wires |-> <<push(wires[1], key[1]), push(wires[2], key[2]),
                          push(wires[3], option_output[1])>>]

read ==
    /\ Len(left_wires) < MaxWires
    /\ \E key \in Fr \X Fr :
         \E r \in {read_result(table, Wires, key)} :
             /\ left_wires' = r.wires[1]
             /\ right_wires' = r.wires[2]
             /\ output_wires' = r.wires[3]
             /\ call' = [NoCall EXCEPT !.op = "read", !.key = key, !.pre = Wires,
                                       !.ret = r.ret]
    /\ UNCHANGED <<table, multiset_vars>>

\* n - 1 - len in usize: with overflow checks (a debug build) a negative
\* difference panics, without them (a release build) it wraps modulo 2^w
pad_by_panics(n, length, overflow_checks) == overflow_checks /\ n - 1 - length < 0

pad_by_off_by_one(n, length) == (n - length + UsizeModulus) % UsizeModulus

pad_by(n, length) == (n - 1 - length + UsizeModulus) % UsizeModulus

\* the mutant: an empty multiset has the last element zero
extend_last_or_zero(wire, n) ==
    IF extend_panics(n) THEN [panic |-> TRUE, wire |-> wire]
    ELSE [panic |-> FALSE,
          wire |-> extend(wire, n, IF wire = <<>> THEN FrZero ELSE last(wire))]

\* wire.extend(pad_by, wire.last()): last() is evaluated first
extend_last(wire, n) ==
    IF last_panics(wire) \/ extend_panics(n) THEN [panic |-> TRUE, wire |-> wire]
    ELSE [panic |-> FALSE, wire |-> extend(wire, n, last(wire))]

Panicked(wires) == [panic |-> TRUE, wires |-> wires, f |-> <<>>, t |-> <<>>]

\* the mutant: the difference saturates at zero and the lengths are not asserted
to_multiset_result_saturating(preprocessed_table, alpha, wires, overflow_checks) ==
    LET merged_table == sort(aggregate(<<preprocessed_table.t_1, preprocessed_table.t_2,
                                         preprocessed_table.t_3>>, alpha))
        d == preprocessed_table.n - 1 - Len(wires[1])
        pad == IF d < 0 THEN 0 ELSE d
        l == extend_last(wires[1], pad)
        r == extend_last(wires[2], pad)
        o == extend_last(wires[3], pad)
    IN  IF l.panic \/ r.panic \/ o.panic THEN Panicked(wires)
        ELSE [panic |-> FALSE, wires |-> <<l.wire, r.wire, o.wire>>,
              f |-> aggregate(<<l.wire, r.wire, o.wire>>, alpha), t |-> merged_table]

\* the mutant: output_wires is padded with the last element of left_wires
to_multiset_result_pad_left(preprocessed_table, alpha, wires, overflow_checks) ==
    LET merged_table == sort(aggregate(<<preprocessed_table.t_1, preprocessed_table.t_2,
                                         preprocessed_table.t_3>>, alpha))
        pad == pad_by(preprocessed_table.n, Len(wires[1]))
        l == extend_last(wires[1], pad)
        r == extend_last(wires[2], pad)
    IN  IF pad_by_panics(preprocessed_table.n, Len(wires[1]), overflow_checks)
           \/ l.panic \/ r.panic \/ wires[3] = <<>>
        THEN Panicked(wires)
        ELSE LET o == extend(wires[3], pad, last(wires[1]))
             IN  [panic |-> FALSE, wires |-> <<l.wire, r.wire, o>>,
                  f |-> aggregate(<<l.wire, r.wire, o>>, alpha), t |-> merged_table]

\* what to_multiset returns (or that it panics) and what it leaves in the wires
to_multiset_result(preprocessed_table, alpha, wires, overflow_checks) ==
    LET merged_table == sort(aggregate(<<preprocessed_table.t_1, preprocessed_table.t_2,
                                         preprocessed_table.t_3>>, alpha))
    IN  IF pad_by_panics(preprocessed_table.n, Len(wires[1]), overflow_checks)
        THEN Panicked(wires)
        ELSE
        LET pad == pad_by(preprocessed_table.n, Len(wires[1]))
            l == extend_last(wires[1], pad)
        IN  IF l.panic THEN Panicked(wires)
            ELSE
            LET r == extend_last(wires[2], pad)
            IN  IF r.panic THEN Panicked(<<l.wire, wires[2], wires[3]>>)
                ELSE
                LET o == extend_last(wires[3], pad)
                IN  IF o.panic THEN Panicked(<<l.wire, r.wire, wires[3]>>)
                    ELSE
                    LET merged_witness == aggregate(<<l.wire, r.wire, o.wire>>, alpha)
                    IN  IF ~(len(merged_witness) < len(merged_table))
                        THEN Panicked(<<l.wire, r.wire, o.wire>>)
                        ELSE [panic |-> FALSE, wires |-> <<l.wire, r.wire, o.wire>>,
                              f |-> merged_witness, t |-> merged_table]

to_multiset ==
    /\ \E alpha \in Fr, overflow_checks \in BOOLEAN :
         \E m \in {to_multiset_result(preprocess(table), alpha, Wires, overflow_checks)} :
             /\ left_wires' = m.wires[1]
             /\ right_wires' = m.wires[2]
             /\ output_wires' = m.wires[3]
             /\ call' = [NoCall EXCEPT !.op = "to_multiset", !.alpha = alpha,
                                       !.overflow_checks = overflow_checks,
                                       !.pre = Wires, !.panic = m.panic,
                                       !.f = m.f, !.t = m.t]
    /\ UNCHANGED <<table, multiset_vars>>

\* prove up to its call of multiset_equality::prove: alpha is the transcript's
\* challenge, and assert_eq!(f.len() + 1, t.len()) follows to_multiset
prove ==
    /\ \E alpha \in Fr, overflow_checks \in BOOLEAN :
         \E m \in {to_multiset_result(preprocess(table), alpha, Wires, overflow_checks)} :
         LET failed == m.panic \/ len(m.f) + 1 # len(m.t)
         IN  /\ left_wires' = m.wires[1]
             /\ right_wires' = m.wires[2]
             /\ output_wires' = m.wires[3]
             /\ call' = [NoCall EXCEPT !.op = "prove", !.alpha = alpha,
                                       !.overflow_checks = overflow_checks,
                                       !.pre = Wires, !.panic = failed,
                                       !.f = IF failed THEN <<>> ELSE m.f,
                                       !.t = IF failed THEN <<>> ELSE m.t]
    /\ UNCHANGED <<table, multiset_vars>>

Next ==
    \/ read
    \/ to_multiset
    \/ prove

Spec == Init /\ [][Next]_vars

(***************************************************************************)
(* The MultiSet operations alone: the LookUp is left as constructed.       *)
(***************************************************************************)
MultiSetInit ==
    /\ MSInit
    /\ table = XORTable
    /\ left_wires = new
    /\ right_wires = new
    /\ output_wires = new
    /\ call = NoCall

MultiSetNext ==
    \/ SortedBy
    \/ ConcatSort
    \/ Halve
    \/ Aggregate

MultiSetSpec == MultiSetInit /\ [][MultiSetNext]_vars

(***************************************************************************)
(* Properties of LookUp, checked under Spec.                               *)
(***************************************************************************)
TableSize == preprocess(table).n

ToMultisetCalled == call.op \in {"to_multiset", "prove"}

\* C1: read returns false exactly when the table has no entry for the key,
\* and then the three wires are as they were before the call; in every state
\* reached by earlier reads (and to_multiset calls).
C1_ReadFalseIffMissing ==
    call.op = "read" =>
        /\ (call.ret = FALSE) <=> (table_read(table, call.key) = None)
        /\ call.ret = FALSE => Wires = call.pre

\* a read of a missing key made after at least one successful read
C1_Witness ==
    /\ call.op = "read"
    /\ call.ret = FALSE
    /\ Len(call.pre[1]) >= 1

\* C2: with k entries in the wires, 1 <= k <= n-1, to_multiset returns (f, t)
\* with |f| = n-1 and |t| = n; afterwards each wire has length n-1, keeps its
\* first k entries and holds its k-th entry at every later position.
C2_PadToTableSize ==
    LET k == Len(call.pre[1])
        n == TableSize
    IN  (call.op = "to_multiset" /\ 1 <= k /\ k <= n - 1) =>
            /\ ~call.panic
            /\ Len(call.f) = n - 1
            /\ Len(call.t) = n
            /\ Len(call.f) + 1 = Len(call.t)
            /\ \A w \in 1 .. 3 :
                  /\ Len(Wires[w]) = n - 1
                  /\ SubSeq(Wires[w], 1, k) = call.pre[w]
                  /\ \A i \in k + 1 .. n - 1 : Wires[w][i] = call.pre[w][k]

\* to_multiset has padded a single read by n-2 replicas
C2_Witness ==
    /\ call.op = "to_multiset"
    /\ Len(call.pre[1]) = 1
    /\ Len(left_wires) = TableSize - 1
    /\ TableSize - 1 > 1

\* C3: after between 1 and n-1 successful reads (duplicates allowed), for
\* every challenge alpha, every element of the f that to_multiset returns
\* occurs in the t it returns.
C3_WitnessInTable ==
    LET k == Len(call.pre[1])
    IN  (call.op = "to_multiset" /\ 1 <= k /\ k <= TableSize - 1) =>
            /\ ~call.panic
            /\ ~is_subset_of_panics(call.f, call.t)
            /\ is_subset_of(call.f, call.t)
            /\ \A i \in 1 .. Len(call.f) : \E j \in 1 .. Len(call.t) : call.f[i] = call.t[j]

\* to_multiset has returned after the same key was read twice
C3_Witness ==
    /\ call.op = "to_multiset"
    /\ ~call.panic
    /\ call.alpha # 0
    /\ Len(call.pre[1]) = 2
    /\ call.pre[1][1] = call.pre[1][2]
    /\ call.pre[2][1] = call.pre[2][2]
    /\ call.f # <<>>

\* C4 as claimed: to_multiset (and prove) on a LookUp with no successful read
\* does not fail and returns (f, t) with |f| = n-1 and |t| = n.
C4_EmptyIsPermitted ==
    (ToMultisetCalled /\ call.pre = <<new, new, new>>) =>
        /\ ~call.panic
        /\ Len(call.f) = TableSize - 1
        /\ Len(call.t) = TableSize

\* C4 as amended: to_multiset (and prove) on a LookUp with no successful read
\* fails fatally (last() panics on the empty wires), returns no (f, t) and
\* leaves the wires empty.
C4_EmptyPanics ==
    (ToMultisetCalled /\ call.pre = <<new, new, new>>) =>
        /\ call.panic
        /\ call.f = <<>>
        /\ call.t = <<>>
        /\ Wires = <<new, new, new>>

\* prove was called on a LookUp whose wires were empty
C4_Witness ==
    /\ call.op = "prove"
    /\ call.pre = <<new, new, new>>

\* C5: with more than n-1 entries in the wires, to_multiset (and prove) fails
\* fatally and returns no (f, t), both when n - 1 - |L| is checked for
\* overflow and when it wraps modulo 2^w.
C5_TooManyReadsPanics ==
    (ToMultisetCalled /\ Len(call.pre[1]) > TableSize - 1) =>
        /\ call.panic
        /\ call.f = <<>>
        /\ call.t = <<>>

\* to_multiset was called with n entries in the wires in a build whose
\* subtraction wraps
C5_Witness ==
    /\ call.op = "to_multiset"
    /\ ~call.overflow_checks
    /\ Len(call.pre[1]) = TableSize
    /\ pad_by(TableSize, Len(call.pre[1])) = UsizeModulus - 1

\* C10: in every reachable state the three wires have equal length and every
\* index holds a row of the table: T.read((L[i], R[i])) = Some(O[i]).
C10_WiresAreTableRows ==
    /\ Len(left_wires) = Len(right_wires)
    /\ Len(right_wires) = Len(output_wires)
    /\ \A i \in 1 .. Len(left_wires) :
          table_read(table, <<left_wires[i], right_wires[i]>>) = Some(output_wires[i])

\* to_multiset (or prove) has added padding to the wires
C10_Witness ==
    /\ ToMultisetCalled
    /\ Len(left_wires) > Len(call.pre[1])
    /\ Len(call.pre[1]) >= 2

(***************************************************************************)
(* Properties of MultiSet, checked under MultiSetSpec.                     *)
(***************************************************************************)
RECURSIVE FrPow(_, _)
FrPow(x, e) == IF e = 0 THEN FrOne ELSE FrMul(x, FrPow(x, e - 1))

Max(S) == CHOOSE x \in S : \A y \in S : y <= x

RECURSIVE PaddedSum(_, _, _, _)
PaddedSum(sets, alpha, j, i) ==
    IF i > Len(sets) THEN FrZero
    ELSE FrAdd(FrMul(FrPow(alpha, i - 1), IF j <= Len(sets[i]) THEN sets[i][j] ELSE FrZero),
               PaddedSum(sets, alpha, j, i + 1))

\* the aggregate of the claim: shorter sets count as zero past their end
AggregatePadded(sets, alpha) ==
    [j \in 1 .. Max({Len(sets[i]) : i \in 1 .. Len(sets)}) |-> PaddedSum(sets, alpha, j, 1)]

\* C6: aggregate returns a sequence of length max|s_i| whose j-th entry is the
\* sum over i of alpha^(i-1) * s_i[j], with s_i[j] zero past the end of s_i.
C6_AggregateZeroPads ==
    ms_call.op = "aggregate" => ms_call.val = AggregatePadded(ms_call.sets, ms_call.alpha)

\* there are strictly increasing indices into t at which t holds self
IsSubsequence(self, t) ==
    \E idx \in [1 .. Len(self) -> 1 .. Len(t)] :
        /\ \A j \in 1 .. Len(self) : t[idx[j]] = self[j]
        /\ \A j \in 1 .. Len(self) - 1 : idx[j] < idx[j + 1]

\* there are non-decreasing indices into t at which t holds self
IsSubsequenceWithRepeats(self, t) ==
    \E idx \in [1 .. Len(self) -> 1 .. Len(t)] :
        /\ \A j \in 1 .. Len(self) : t[idx[j]] = self[j]
        /\ \A j \in 1 .. Len(self) - 1 : idx[j] <= idx[j + 1]

\* C7 as claimed: sorted_by returns true if and only if self is a subsequence
\* of t (strictly increasing indices).
C7_SortedByIffSubsequence ==
    ms_call.op = "sorted_by" => (ms_call.val[1] <=> IsSubsequence(set_a, set_b))

\* C7 as amended: sorted_by returns true if and only if there are
\* non-decreasing indices i_1 <= ... <= i_m into t with t[i_j] = self[j]; the
\* empty self is sorted-by every t.
C7_SortedByIffRepeatingSubsequence ==
    ms_call.op = "sorted_by" =>
        /\ ms_call.val[1] <=> IsSubsequenceWithRepeats(set_a, set_b)
        /\ set_a = <<>> => ms_call.val[1]

\* sorted_by has accepted a self that matches one element of t twice
C7_Witness ==
    /\ ms_call.op = "sorted_by"
    /\ ms_call.val[1]
    /\ Len(set_a) > Len(set_b)

IsSorted(s) == \A j \in 1 .. Len(s) - 1 : s[j] <= s[j + 1]

\* C8 as claimed: for all f and t, with s = sort(f || t), if every element of
\* s appears in t then s.sorted_by(t) is true.
C8_SortedConcatIsSortedBy ==
    ms_call.op = "concat_sort" =>
        ((\A e \in Range(ms_call.val[1]) : contains(set_b, e)) => ms_call.val[2])

\* C8 as amended: for all f and every t in ascending order, with
\* s = sort(f || t), if every element of s appears in t then s.sorted_by(t)
\* is true.
C8_SortedConcatIsSortedBySortedTable ==
    ms_call.op = "concat_sort" =>
        ((IsSorted(set_b) /\ \A e \in Range(ms_call.val[1]) : contains(set_b, e))
            => ms_call.val[2])

\* s = sort(f || t) for a non-empty f within an ascending t of two values
C8_Witness ==
    /\ ms_call.op = "concat_sort"
    /\ set_a # <<>>
    /\ IsSorted(set_b)
    /\ Cardinality(Range(set_b)) >= 2
    /\ Range(set_a) \subseteq Range(set_b)
    /\ ms_call.val[1] = sort(set_a \o set_b)

\* C9: on a sequence s of length 2n+1, halve returns h_1 = s[0..=n] and
\* h_2 = s[n..2n+1], both of length n+1, the last element of h_1 and the
\* first of h_2 both being s[n]; s is not modified.
C9_HalveOddLength ==
    (ms_call.op = "halve" /\ Len(set_a) % 2 = 1) =>
        LET n == (Len(set_a) - 1) \div 2
            h_1 == ms_call.val[1]
            h_2 == ms_call.val[2]
        IN  /\ ~ms_call.panic
            /\ Len(h_1) = n + 1
            /\ Len(h_2) = n + 1
            /\ \A j \in 1 .. n + 1 : h_1[j] = set_a[j] /\ h_2[j] = set_a[n + j]
            /\ h_1[n + 1] = h_2[1]
            /\ h_2[1] = set_a[n + 1]

\* halve was called on a sequence of three elements
C9_Witness ==
    /\ ms_call.op = "halve"
    /\ Len(set_a) = 3
    /\ Len(ms_call.val) = 2

=============================================================================
